---- MODULE Spec2Model ----
(***************************************************************************)
(* Model of the three leaf wrappers of Digital_Life_Server:                *)
(*   GPT/GPTService.py       GPTService.ask, GPTService.ask_stream         *)
(*   TTS/IndexTTService.py   IndexTTService.__init__, read_savefile,       *)
(*                           read_save                                     *)
(*   TTS/setup_index_tts.py  main and the step functions it calls          *)
(* Text is a sequence of characters; a character is a one-element token.   *)
(* The three full-width terminators of the source are written by their     *)
(* code points: "U+3002" (ideographic full stop), "U+FF01" (full-width     *)
(* exclamation mark), "U+FF1F" (full-width question mark).                 *)
(***************************************************************************)
EXTENDS Integers, Sequences, FiniteSets, TLC

VARIABLES
    \* ---- GPTService ----
    mode,            \* which method the caller invoked: "ask" or "ask_stream"
    gpt_pc,          \* "idle", "loop", "done", "returned", "raised"
    requests,        \* number of client.chat.completions.create calls issued
    counter,         \* self.counter
    consumed,        \* number of stream items taken from data_source
    message,         \* local `message` of ask_stream
    complete_text,   \* local `complete_text` of ask_stream (the buffer)
    prev_text,       \* local `prev_text` (ask_stream: all fragments so far)
    chunks,          \* the values yielded so far, in order
    raw,             \* history: the unstripped text behind each yielded chunk
    received,        \* history: the content fragments taken from data_source
    final_yielded,   \* history: TRUE once the yield after the loop has run
    gpt_error,       \* the exception the endpoint raised ("none" if none)
    gpt_raised,      \* the exception that reached the caller ("none" if none)
    gpt_result,      \* return value of ask ("none" until it returns)
    \* ---- IndexTTService ----
    present,         \* names of the files that exist under model_dir
    model_dir,       \* self.model_dir
    char,            \* self.char
    tts_pc,          \* "new", "ready" (constructed), "ctor_raised"
    missing_files,   \* local `missing_files` of __init__
    load_calls,      \* number of IndexTTS(...) constructions attempted
    ctor_raised,     \* the exception __init__ raised (NoError if none)
    infer_calls,     \* the arguments of every self.tts.infer call, in order
    synth_calls,     \* the read_save / read_savefile calls made, in order
    synth_raised,    \* per call, the exception that reached its caller
    \* ---- setup_index_tts ----
    python_ok,       \* sys.version_info >= (3, 8)
    cuda,            \* "available", "unavailable", "no_torch", "broken"
    requirements_exists,  \* Path("requirements.txt").exists()
    submodule_exists,     \* Path("TTS/index-tts").exists()
    voices,          \* voice_files of create_sample_voice is non-empty
    setup_pc,        \* the step main is about to call, or "exit"
    invoked,         \* the step functions main has called, in order
    results,         \* per invoked step: TRUE, FALSE or the exception raised
    cwd,             \* the process working directory
    exit_status      \* -1 while main runs, then the process exit status

gptVars == <<mode, gpt_pc, requests, counter, consumed, message, complete_text,
             prev_text, chunks, raw, received, final_yielded, gpt_error,
             gpt_raised, gpt_result>>

ttsVars == <<present, model_dir, char, tts_pc, missing_files, load_calls,
             ctor_raised, infer_calls, synth_calls, synth_raised>>

setupVars == <<python_ok, cuda, requirements_exists, submodule_exists, voices,
               setup_pc, invoked, results, cwd, exit_status>>

vars == <<gptVars, ttsVars, setupVars>>

----------------------------------------------------------------------------
(* Bounds *)
MaxDeltas == 4
MaxSynth == 2

----------------------------------------------------------------------------
(* Text helpers *)

Whitespace == {" ", "\n", "\t"}

RECURSIVE LStrip(_)
LStrip(s) ==
    IF s = <<>> THEN <<>>
    ELSE IF Head(s) \in Whitespace THEN LStrip(Tail(s))
    ELSE s

RECURSIVE RStrip(_)
RStrip(s) ==
    IF s = <<>> THEN <<>>
    ELSE IF s[Len(s)] \in Whitespace THEN RStrip(SubSeq(s, 1, Len(s) - 1))
    ELSE s

\* str.strip()
Strip(s) == RStrip(LStrip(s))

RECURSIVE Concat(_)
Concat(ss) == IF ss = <<>> THEN <<>> ELSE Head(ss) \o Concat(Tail(ss))

\* `c in message`
Contains(m, c) == \E i \in 1..Len(m) : m[i] = c

----------------------------------------------------------------------------
(* The fragments the fake endpoint can deliver *)

Hello      == <<"H", "e", "l", "l", "o">>
World      == <<" ", "w", "o", "r", "l", "d", ".">>
Next_      == <<" ", "N", "e", "x", "t">>
Sentence   == <<" ", "s", "e", "n", "t", "e", "n", "c", "e", "!">>
WorldFW    == <<" ", "w", "o", "r", "l", "d", "U+3002">>
SentenceFW == <<" ", "s", "e", "n", "t", "e", "n", "c", "e", "U+FF01">>
HiFW       == <<"H", "i", "U+3002">>
NewLines   == <<"\n", "\n">>
Ques       == <<"U+FF1F">>

Fragments == {Hello, World, Next_, Sentence, WorldFW, SentenceFW, HiFW,
              NewLines, Ques}

Errors == {"APIConnectionError", "RateLimitError"}

----------------------------------------------------------------------------
(* GPTService.ask_stream *)

\* variant: the ASCII marks count as terminators too
Terminators_ascii == {"U+3002", "U+FF01", "U+FF1F", "\n", ".", "!", "?"}
\* the characters tested by the `in message` disjunction
Terminators == {"U+3002", "U+FF01", "U+FF1F", "\n"}

HasTerminator(m) == \E c \in Terminators : Contains(m, c)

\* variant: no minimum buffer length
FlushCond_short(m, buf) == HasTerminator(m)
\* the condition of the if inside the loop
FlushCond(m, buf) == HasTerminator(m) /\ Len(buf) > 3

\* variant: nothing is produced after the loop
FinalCond_never(buf) == FALSE
\* the condition of the if after the loop
FinalCond(buf) == Strip(buf) # <<>>

GPTStart ==
    /\ mode \in {"ask", "ask_stream"}
    /\ gpt_pc = "idle"
    /\ requests = 0
    /\ counter = 0
    /\ consumed = 0
    /\ message = <<>>
    /\ complete_text = <<>>
    /\ prev_text = <<>>
    /\ chunks = <<>>
    /\ raw = <<>>
    /\ received = <<>>
    /\ final_yielded = FALSE
    /\ gpt_error = "none"
    /\ gpt_raised = "none"
    /\ gpt_result = "none"

\* first next() on the generator: runs up to the for statement
AskStreamStart ==
    /\ mode = "ask_stream"
    /\ gpt_pc = "idle"
    /\ counter' = counter + 1
    /\ requests' = requests + 1
    /\ \/ /\ gpt_pc' = "loop"
          /\ UNCHANGED <<gpt_error, gpt_raised>>
       \/ \E e \in Errors :
             /\ gpt_error' = e
             /\ gpt_raised' = e
             /\ gpt_pc' = "raised"
    /\ UNCHANGED <<mode, consumed, message, complete_text, prev_text, chunks,
                   raw, received, final_yielded, gpt_result>>

\* variant: the flush branch yields the buffer without the fragment
StreamFragment_drop(m) ==
    /\ gpt_pc = "loop"
    /\ consumed < MaxDeltas
    /\ consumed' = consumed + 1
    /\ message' = m
    /\ IF FlushCond(m, complete_text)
       THEN /\ chunks' = Append(chunks, Strip(complete_text))
            /\ raw' = Append(raw, complete_text)
            /\ complete_text' = <<>>
       ELSE /\ complete_text' = complete_text \o m
            /\ UNCHANGED <<chunks, raw>>
    /\ prev_text' = prev_text \o m
    /\ received' = Append(received, m)
    /\ UNCHANGED <<mode, gpt_pc, requests, counter, final_yielded, gpt_error,
                   gpt_raised, gpt_result>>

\* one iteration of the loop on a delta that carries content m
StreamFragment(m) ==
    /\ gpt_pc = "loop"
    /\ consumed < MaxDeltas
    /\ consumed' = consumed + 1
    /\ message' = m
    /\ IF FlushCond(m, complete_text)
       THEN /\ chunks' = Append(chunks, Strip(complete_text \o m))
            /\ raw' = Append(raw, complete_text \o m)
            /\ complete_text' = <<>>
       ELSE /\ complete_text' = complete_text \o m
            /\ UNCHANGED <<chunks, raw>>
    /\ prev_text' = prev_text \o m
    /\ received' = Append(received, m)
    /\ UNCHANGED <<mode, gpt_pc, requests, counter, final_yielded, gpt_error,
                   gpt_raised, gpt_result>>

\* one iteration on a delta without content: continue
StreamSkip ==
    /\ gpt_pc = "loop"
    /\ consumed < MaxDeltas
    /\ consumed' = consumed + 1
    /\ UNCHANGED <<mode, gpt_pc, requests, counter, message, complete_text,
                   prev_text, chunks, raw, received, final_yielded, gpt_error,
                   gpt_raised, gpt_result>>

\* variant: the buffer is flushed when the stream fails
StreamError_flush(e) ==
    /\ gpt_pc = "loop"
    /\ gpt_error' = e
    /\ gpt_raised' = e
    /\ gpt_pc' = "raised"
    /\ chunks' = Append(chunks, Strip(complete_text))
    /\ UNCHANGED <<mode, requests, counter, consumed, message, complete_text,
                   prev_text, raw, received, final_yielded, gpt_result>>

\* iterating data_source raises: the exception leaves the generator
StreamError(e) ==
    /\ gpt_pc = "loop"
    /\ gpt_error' = e
    /\ gpt_raised' = e
    /\ gpt_pc' = "raised"
    /\ UNCHANGED <<mode, requests, counter, consumed, message, complete_text,
                   prev_text, chunks, raw, received, final_yielded, gpt_result>>

\* data_source is exhausted: the code after the loop
StreamEnd ==
    /\ gpt_pc = "loop"
    /\ gpt_pc' = "done"
    /\ IF FinalCond(complete_text)
       THEN /\ chunks' = Append(chunks, Strip(complete_text))
            /\ raw' = Append(raw, complete_text)
            /\ final_yielded' = TRUE
       ELSE UNCHANGED <<chunks, raw, final_yielded>>
    /\ UNCHANGED <<mode, requests, counter, consumed, message, complete_text,
                   prev_text, received, gpt_error, gpt_raised, gpt_result>>

(* GPTService.ask *)
Replies == {<<"4", "2">>, Hello}

Ask ==
    /\ mode = "ask"
    /\ gpt_pc = "idle"
    /\ requests' = requests + 1
    /\ \/ \E r \in Replies :
             /\ prev_text' = r
             /\ gpt_result' = r
             /\ gpt_pc' = "returned"
             /\ UNCHANGED <<gpt_error, gpt_raised>>
       \/ \E e \in Errors :
             /\ gpt_error' = e
             /\ gpt_raised' = e
             /\ gpt_pc' = "raised"
             /\ UNCHANGED <<prev_text, gpt_result>>
    /\ UNCHANGED <<mode, counter, consumed, message, complete_text, chunks,
                   raw, received, final_yielded>>

----------------------------------------------------------------------------
(* IndexTTService *)

required_files == <<"config.yaml", "bigvgan_discriminator.pth",
                    "bigvgan_generator.pth", "bpe.model", "dvae.pth",
                    "gpt.pth", "unigram_12000.vocab">>

RequiredSet == {required_files[i] : i \in 1..Len(required_files)}

\* other files a model directory may hold
OtherFiles == {"default.wav"}

ModelDirs == {"TTS/models/index_tts", "models"}
Chars == {"default", "paimon"}

\* variant: the loop stops at the first missing file
RECURSIVE MissingFrom_first(_, _)
MissingFrom_first(i, files) ==
    IF i > Len(required_files) THEN <<>>
    ELSE IF required_files[i] \notin files THEN <<required_files[i]>>
    ELSE MissingFrom_first(i + 1, files)

\* the for loop that fills missing_files, from position i on
RECURSIVE MissingFrom(_, _)
MissingFrom(i, files) ==
    IF i > Len(required_files) THEN <<>>
    ELSE IF required_files[i] \notin files
         THEN <<required_files[i]>> \o MissingFrom(i + 1, files)
         ELSE MissingFrom(i + 1, files)

\* model_dir / name; a path is the sequence of its pieces
PathJoin(dir, name) == <<dir, "/">> \o name

\* Path(self.model_dir / f"{self.char}.wav")
DefaultVoice(dir, c) == PathJoin(dir, <<c, ".wav">>)

LoadErrors == {"RuntimeError"}
NoError == [type |-> "none", files |-> <<>>]
InferErrors == {"RuntimeError", "ValueError"}

TTSStart ==
    /\ present \in SUBSET (RequiredSet \cup OtherFiles)
    /\ model_dir \in ModelDirs
    /\ char \in Chars
    /\ tts_pc = "new"
    /\ missing_files = <<>>
    /\ load_calls = 0
    /\ ctor_raised = NoError
    /\ infer_calls = <<>>
    /\ synth_calls = <<>>
    /\ synth_raised = <<>>

\* IndexTTService.__init__
Construct ==
    /\ tts_pc = "new"
    /\ missing_files' = MissingFrom(1, present)
    /\ IF missing_files' # <<>>
       THEN /\ ctor_raised' = [type |-> "FileNotFoundError",
                               files |-> missing_files']
            /\ tts_pc' = "ctor_raised"
            /\ UNCHANGED load_calls
       ELSE /\ load_calls' = load_calls + 1
            /\ \/ /\ tts_pc' = "ready"
                  /\ UNCHANGED ctor_raised
               \/ \E e \in LoadErrors :
                     /\ ctor_raised' = [type |-> e, files |-> <<>>]
                     /\ tts_pc' = "ctor_raised"
    /\ UNCHANGED <<present, model_dir, char, infer_calls, synth_calls,
                   synth_raised>>

Texts == {"hello", ""}
OutPaths == {"out.wav", "tmp/a.wav"}
\* reference_voice_path: None or a path
None == <<"None">>
RefPaths == {None, <<"voices", "/", "ref", ".wav">>}

\* variant: a failed inference is tried a second time
SaveFileBody_retry(text, output_path, ref, outcome) ==
    LET voice == IF ref = None THEN DefaultVoice(model_dir, char) ELSE ref
        call == [audio_prompt |-> voice, text |-> text,
                 output_path |-> output_path]
    IN  /\ infer_calls' = IF outcome = "none"
                          THEN Append(infer_calls, call)
                          ELSE infer_calls \o <<call, call>>
        /\ synth_raised' = Append(synth_raised, outcome)

\* the body of read_savefile: one self.tts.infer call; outcome is "none"
\* or the exception infer raised
SaveFileBody(text, output_path, ref, outcome) ==
    LET voice == IF ref = None THEN DefaultVoice(model_dir, char) ELSE ref
        call == [audio_prompt |-> voice, text |-> text,
                 output_path |-> output_path]
    IN  /\ infer_calls' = Append(infer_calls, call)
        /\ synth_raised' = Append(synth_raised, outcome)

\* IndexTTService.read_savefile
ReadSaveFile(text, output_path, ref, outcome) ==
    /\ tts_pc = "ready"
    /\ Len(synth_calls) < MaxSynth
    /\ synth_calls' = Append(synth_calls,
                             [method |-> "read_savefile", text |-> text,
                              output_path |-> output_path, ref |-> ref,
                              inference |-> outcome])
    /\ SaveFileBody(text, output_path, ref, outcome)
    /\ UNCHANGED <<present, model_dir, char, tts_pc, missing_files,
                   load_calls, ctor_raised>>

\* IndexTTService.read_save: passes text, filename and the reference on
ReadSave(text, filename, ref, outcome) ==
    /\ tts_pc = "ready"
    /\ Len(synth_calls) < MaxSynth
    /\ synth_calls' = Append(synth_calls,
                             [method |-> "read_save", text |-> text,
                              output_path |-> filename, ref |-> ref,
                              inference |-> outcome])
    /\ SaveFileBody(text, filename, ref, outcome)
    /\ UNCHANGED <<present, model_dir, char, tts_pc, missing_files,
                   load_calls, ctor_raised>>

----------------------------------------------------------------------------
(* setup_index_tts *)

OriginalDir == "project"
IndexTTSPath == "project/TTS/index-tts"

\* the order in which main calls the step functions
StepOrder == <<"check_python_version", "check_cuda", "install_dependencies",
               "init_submodule", "install_index_tts_from_source",
               "create_directories", "download_models", "test_installation",
               "create_sample_voice">>

\* variant: a failed download_models does not stop main
Fatal_lenient == {"check_python_version", "install_dependencies",
                  "init_submodule", "install_index_tts_from_source",
                  "create_directories", "test_installation"}
\* the steps main wraps in `if not step(): sys.exit(1)`
Fatal == {"check_python_version", "install_dependencies", "init_submodule",
          "install_index_tts_from_source", "create_directories",
          "download_models", "test_installation"}

SetupStart ==
    /\ python_ok \in BOOLEAN
    /\ cuda \in {"available", "unavailable", "no_torch", "broken"}
    /\ requirements_exists \in BOOLEAN
    /\ submodule_exists \in BOOLEAN
    /\ voices \in BOOLEAN
    /\ setup_pc = "check_python_version"
    /\ invoked = <<>>
    /\ results = <<>>
    /\ cwd = OriginalDir
    /\ exit_status = -1

\* the two values a step function returns
Returned == {"True", "False"}
Bool(b) == IF b THEN "True" ELSE "False"

\* what main does with the outcome r of step number i: r is "True" or
\* "False" (the step returned) or the name of an exception that left the step
MainAfter(i, r) ==
    /\ invoked' = Append(invoked, StepOrder[i])
    /\ results' = Append(results, r)
    /\ IF r \notin Returned
       THEN \* uncaught exception: traceback, exit status 1
            setup_pc' = "exit" /\ exit_status' = 1
       ELSE IF r = "False" /\ StepOrder[i] \in Fatal
       THEN \* sys.exit(1)
            setup_pc' = "exit" /\ exit_status' = 1
       ELSE IF i = Len(StepOrder)
       THEN \* main returns
            setup_pc' = "exit" /\ exit_status' = 0
       ELSE setup_pc' = StepOrder[i + 1] /\ exit_status' = exit_status

EnvUnchanged ==
    UNCHANGED <<python_ok, cuda, requirements_exists, submodule_exists, voices>>

check_python_version ==
    /\ setup_pc = "check_python_version"
    /\ MainAfter(1, Bool(python_ok))
    /\ UNCHANGED cwd
    /\ EnvUnchanged

check_cuda ==
    /\ setup_pc = "check_cuda"
    /\ MainAfter(2, CASE cuda = "available" -> "True"
                      [] cuda = "unavailable" -> "False"
                      [] cuda = "no_torch" -> "False"
                      [] OTHER -> "OSError")
    /\ UNCHANGED cwd
    /\ EnvUnchanged

install_dependencies ==
    /\ setup_pc = "install_dependencies"
    /\ IF ~requirements_exists
       THEN MainAfter(3, "False")
       ELSE \* pip exits 0, or CalledProcessError, or the launch fails
            \E r \in {"True", "False", "OSError"} : MainAfter(3, r)
    /\ UNCHANGED cwd
    /\ EnvUnchanged

init_submodule ==
    /\ setup_pc = "init_submodule"
    /\ \E r \in Returned : MainAfter(4, r)
    /\ UNCHANGED cwd
    /\ EnvUnchanged

\* outcomes of the operating-system calls of install_index_tts_from_source
OsCall == {"ok", "raise"}
RunOutcome == {"returncode 0", "returncode 1", "raise"}

\* install_index_tts_from_source: g = os.getcwd(), ci = os.chdir(index_tts_path),
\* run = subprocess.run (its return code, or "raise"), cb = the os.chdir back
\* after the run, ch = the os.chdir in the except handler
InstallOutcome(g, ci, run, cb, ch) ==
    IF ~submodule_exists
    THEN [ret |-> "False", cwd |-> OriginalDir]
    ELSE IF g = "raise"
    THEN \* original_dir is unbound when the handler reads it
         [ret |-> "UnboundLocalError", cwd |-> OriginalDir]
    ELSE IF ci = "raise"
    THEN IF ch = "ok" THEN [ret |-> "False", cwd |-> OriginalDir]
                      ELSE [ret |-> "OSError", cwd |-> OriginalDir]
    ELSE IF run = "raise" \/ cb = "raise"
    THEN IF ch = "ok" THEN [ret |-> "False", cwd |-> OriginalDir]
                      ELSE [ret |-> "OSError", cwd |-> IndexTTSPath]
    ELSE [ret |-> Bool(run = "returncode 0"), cwd |-> OriginalDir]

install_index_tts_from_source ==
    /\ setup_pc = "install_index_tts_from_source"
    /\ \E g \in OsCall, ci \in OsCall, run \in RunOutcome, cb \in OsCall,
          ch \in OsCall :
          LET out == InstallOutcome(g, ci, run, cb, ch)
          IN  /\ MainAfter(5, out.ret)
              /\ cwd' = out.cwd
    /\ EnvUnchanged

create_directories ==
    /\ setup_pc = "create_directories"
    /\ \E r \in {"True", "PermissionError"} : MainAfter(6, r)
    /\ UNCHANGED cwd
    /\ EnvUnchanged

download_models ==
    /\ setup_pc = "download_models"
    /\ \E r \in Returned : MainAfter(7, r)
    /\ UNCHANGED cwd
    /\ EnvUnchanged

test_installation ==
    /\ setup_pc = "test_installation"
    /\ \E r \in Returned : MainAfter(8, r)
    /\ UNCHANGED cwd
    /\ EnvUnchanged

create_sample_voice ==
    /\ setup_pc = "create_sample_voice"
    /\ MainAfter(9, Bool(voices))
    /\ UNCHANGED cwd
    /\ EnvUnchanged

----------------------------------------------------------------------------
(* Specifications: one per source file; the other two components are idle *)

GPTIdle ==
    /\ mode = "ask"
    /\ gpt_pc = "idle"
    /\ requests = 0
    /\ counter = 0
    /\ consumed = 0
    /\ message = <<>>
    /\ complete_text = <<>>
    /\ prev_text = <<>>
    /\ chunks = <<>>
    /\ raw = <<>>
    /\ received = <<>>
    /\ final_yielded = FALSE
    /\ gpt_error = "none"
    /\ gpt_raised = "none"
    /\ gpt_result = "none"

TTSIdle ==
    /\ present = {}
    /\ model_dir = "TTS/models/index_tts"
    /\ char = "default"
    /\ tts_pc = "new"
    /\ missing_files = <<>>
    /\ load_calls = 0
    /\ ctor_raised = NoError
    /\ infer_calls = <<>>
    /\ synth_calls = <<>>
    /\ synth_raised = <<>>

SetupIdle ==
    /\ python_ok = TRUE
    /\ cuda = "available"
    /\ requirements_exists = TRUE
    /\ submodule_exists = TRUE
    /\ voices = TRUE
    /\ setup_pc = "check_python_version"
    /\ invoked = <<>>
    /\ results = <<>>
    /\ cwd = OriginalDir
    /\ exit_status = -1

InitGPT == GPTStart /\ TTSIdle /\ SetupIdle
NextGPT ==
    \/ AskStreamStart /\ UNCHANGED <<ttsVars, setupVars>>
    \/ \E m \in Fragments :
          StreamFragment(m) /\ UNCHANGED <<ttsVars, setupVars>>
    \/ StreamSkip /\ UNCHANGED <<ttsVars, setupVars>>
    \/ \E e \in Errors : StreamError(e) /\ UNCHANGED <<ttsVars, setupVars>>
    \/ StreamEnd /\ UNCHANGED <<ttsVars, setupVars>>
    \/ Ask /\ UNCHANGED <<ttsVars, setupVars>>
SpecGPT == InitGPT /\ [][NextGPT]_vars

InitTTS == GPTIdle /\ TTSStart /\ SetupIdle
NextTTS ==
    \/ Construct /\ UNCHANGED <<gptVars, setupVars>>
    \/ \E t \in Texts, o \in OutPaths, r \in RefPaths,
          x \in {"none"} \cup InferErrors :
          ReadSaveFile(t, o, r, x) /\ UNCHANGED <<gptVars, setupVars>>
    \/ \E t \in Texts, o \in OutPaths, r \in RefPaths,
          x \in {"none"} \cup InferErrors :
          ReadSave(t, o, r, x) /\ UNCHANGED <<gptVars, setupVars>>
SpecTTS == InitTTS /\ [][NextTTS]_vars

InitSetup == GPTIdle /\ TTSIdle /\ SetupStart
NextSetup ==
    \/ check_python_version /\ UNCHANGED <<gptVars, ttsVars>>
    \/ check_cuda /\ UNCHANGED <<gptVars, ttsVars>>
    \/ install_dependencies /\ UNCHANGED <<gptVars, ttsVars>>
    \/ init_submodule /\ UNCHANGED <<gptVars, ttsVars>>
    \/ install_index_tts_from_source /\ UNCHANGED <<gptVars, ttsVars>>
    \/ create_directories /\ UNCHANGED <<gptVars, ttsVars>>
    \/ download_models /\ UNCHANGED <<gptVars, ttsVars>>
    \/ test_installation /\ UNCHANGED <<gptVars, ttsVars>>
    \/ create_sample_voice /\ UNCHANGED <<gptVars, ttsVars>>
SpecSetup == InitSetup /\ [][NextSetup]_vars

----------------------------------------------------------------------------
(* Properties of GPTService *)

\* a loop iteration that took a fragment with content; message' is the fragment
ReceivedStep ==
    /\ gpt_pc = "loop"
    /\ consumed' = consumed + 1
    /\ received' = Append(received, message')

HelloWorld      == Hello \o World
NextSentence    == Strip(Next_ \o Sentence)
HelloWorldFW    == Hello \o WorldFW
NextSentenceFW  == Strip(Next_ \o SentenceFW)

\* C1 as stated: a fragment holding a terminator, ASCII or full-width, that
\* arrives on a buffer of more than 3 characters makes buffer plus fragment
\* one chunk and empties the buffer; "Hello", " world.", " Next",
\* " sentence!" yield "Hello world." and then "Next sentence!".
C1_AsStated ==
    /\ [][(/\ ReceivedStep
           /\ \E c \in Terminators_ascii : Contains(message', c)
           /\ Len(complete_text) > 3)
          => (/\ chunks' = Append(chunks, Strip(complete_text \o message'))
              /\ complete_text' = <<>>)]_vars
    /\ []((gpt_pc = "done" /\ received = <<Hello, World, Next_, Sentence>>)
          => chunks = <<HelloWorld, NextSentence>>)

\* C1 amended: the terminators are the full-width full stop, exclamation
\* mark and question mark and the newline only. A fragment holding one of
\* them that arrives on a buffer of more than 3 characters makes buffer plus
\* fragment one (stripped) chunk and empties the buffer. The ASCII example
\* yields the single chunk "Hello world. Next sentence!" at stream end; the
\* same fragments with full-width marks yield two chunks.
C1_FullWidthTerminators ==
    /\ [][(/\ ReceivedStep
           /\ \E c \in {"U+3002", "U+FF01", "U+FF1F", "\n"} :
                 Contains(message', c)
           /\ Len(complete_text) > 3)
          => (/\ chunks' = Append(chunks, Strip(complete_text \o message'))
              /\ complete_text' = <<>>)]_vars
    /\ []((gpt_pc = "done" /\ received = <<Hello, World, Next_, Sentence>>)
          => chunks = <<Strip(Hello \o World \o Next_ \o Sentence)>>)
    /\ []((gpt_pc = "done" /\ received = <<Hello, WorldFW, Next_, SentenceFW>>)
          => chunks = <<HelloWorldFW, NextSentenceFW>>)

C1_Witness ==
    /\ gpt_pc = "done"
    /\ received = <<Hello, WorldFW, Next_, SentenceFW>>
    /\ chunks = <<HelloWorldFW, NextSentenceFW>>
    /\ complete_text = <<>>

\* C2: a fragment that arrives on a buffer of 3 characters or fewer never
\* produces a chunk, whatever it contains; it is appended to the buffer.
C2_NoEarlyFlush ==
    [][(ReceivedStep /\ Len(complete_text) <= 3)
       => (/\ chunks' = chunks
           /\ complete_text' = complete_text \o message')]_vars

\* the 3-character buffer "Hi<full stop>" met a terminator and kept growing
C2_Witness ==
    /\ gpt_pc = "loop"
    /\ received = <<HiFW, Ques>>
    /\ complete_text = HiFW \o Ques
    /\ chunks = <<>>

\* the step that leaves the loop because data_source is exhausted
EndStep == gpt_pc = "loop" /\ gpt_pc' = "done"

\* C3 as stated: at stream end a non-empty buffer is produced exactly once
\* as the final chunk, an empty buffer produces nothing.
C3_AsStated ==
    [][/\ EndStep =>
            IF complete_text # <<>>
            THEN chunks' = Append(chunks, Strip(complete_text))
            ELSE chunks' = chunks
       /\ gpt_pc = "done" => chunks' = chunks]_vars

\* C3 amended: at stream end a buffer that is non-empty after whitespace
\* stripping is produced (stripped) exactly once as the final chunk; a
\* buffer that is empty or holds only whitespace produces nothing.
C3_FinalFlush ==
    [][/\ EndStep =>
            IF Strip(complete_text) # <<>>
            THEN chunks' = Append(chunks, Strip(complete_text))
            ELSE chunks' = chunks
       /\ gpt_pc = "done" => chunks' = chunks]_vars

C3_Witness ==
    /\ gpt_pc = "done"
    /\ final_yielded
    /\ Len(chunks) = 2
    /\ chunks[2] = Strip(complete_text)

\* C4: one request per call and no retry; an endpoint error reaches the
\* caller unchanged, ends the call, and the buffer is not flushed.
C4_NoRetry ==
    /\ [](/\ requests <= 1
          /\ gpt_pc # "idle" => requests = 1
          /\ gpt_error # "none" => (gpt_pc = "raised" /\ gpt_raised = gpt_error)
          /\ gpt_pc = "raised" => (gpt_error # "none" /\ gpt_result = "none"))
    /\ [][/\ gpt_pc' = "raised" => chunks' = chunks
          /\ gpt_pc = "raised" => (requests' = requests /\ gpt_pc' = "raised")]_vars

\* an error arrived while text was still held in the buffer
C4_Witness ==
    /\ mode = "ask_stream"
    /\ gpt_pc = "raised"
    /\ gpt_raised = "RateLimitError"
    /\ Strip(complete_text) # <<>>
    /\ chunks # <<>>

\* C8: no fragment text is lost, duplicated or reordered. The fragments
\* received so far, concatenated, are the unstripped texts of the chunks
\* produced so far followed by the buffer (the buffer that the final yield
\* has produced counts as produced); each chunk is its text stripped; a
\* buffer left unproduced at stream end is whitespace only.
C8_NoTextLost ==
    mode = "ask_stream" =>
        /\ Len(raw) = Len(chunks)
        /\ \A i \in 1..Len(chunks) : chunks[i] = Strip(raw[i])
        /\ prev_text = Concat(received)
        /\ Concat(received)
             = Concat(raw) \o (IF final_yielded THEN <<>> ELSE complete_text)
        /\ (gpt_pc = "done" /\ ~final_yielded) => Strip(complete_text) = <<>>

\* a finished stream with a mid-stream chunk and a final chunk, one stripped
C8_Witness ==
    /\ gpt_pc = "done"
    /\ Len(received) = 4
    /\ Len(chunks) = 2
    /\ final_yielded
    /\ \E i \in 1..Len(chunks) : chunks[i] # raw[i]

\* C9: every chunk produced is non-empty after whitespace stripping.
C9_ChunksNonEmpty ==
    \A i \in 1..Len(chunks) : Strip(chunks[i]) # <<>>

----------------------------------------------------------------------------
(* Properties of IndexTTService *)

\* C5: constructing on a model directory that lacks a required file raises
\* FileNotFoundError whose listing is exactly the missing required files,
\* each once, and the model is not loaded; the load is attempted (once)
\* exactly when all seven files exist.
C5_MissingFilesRaise ==
    tts_pc # "new" =>
        LET missing == RequiredSet \ present
            listed == {ctor_raised.files[i] : i \in 1..Len(ctor_raised.files)}
        IN  /\ missing # {} =>
                  /\ tts_pc = "ctor_raised"
                  /\ ctor_raised.type = "FileNotFoundError"
                  /\ listed = missing
                  /\ Len(ctor_raised.files) = Cardinality(missing)
                  /\ load_calls = 0
            /\ missing = {} => load_calls = 1
            /\ load_calls <= 1

\* two required files are absent, another file of the directory is present
C5_Witness ==
    /\ tts_pc = "ctor_raised"
    /\ RequiredSet \ present = {"bpe.model", "gpt.pth"}
    /\ "default.wav" \in present
    /\ ctor_raised.files = <<"bpe.model", "gpt.pth">>
    /\ load_calls = 0

\* C7: every read_save / read_savefile call makes exactly one infer call,
\* with the caller's text and output path and with the supplied reference
\* voice, or <model_dir>/<char>.wav when none is supplied; what inference
\* raises is what the caller gets, and inference is not tried again.
C7_InferOnce ==
    /\ Len(infer_calls) = Len(synth_calls)
    /\ Len(synth_raised) = Len(synth_calls)
    /\ \A i \in 1..Len(synth_calls) :
          /\ i <= Len(infer_calls) =>
                /\ infer_calls[i].text = synth_calls[i].text
                /\ infer_calls[i].output_path = synth_calls[i].output_path
                /\ infer_calls[i].audio_prompt
                     = IF synth_calls[i].ref = None
                       THEN <<model_dir, "/", char, ".wav">>
                       ELSE synth_calls[i].ref
          /\ i <= Len(synth_raised) =>
                synth_raised[i] = synth_calls[i].inference

\* a call without reference voice whose inference raised, and a read_save
\* call with a reference voice
C7_Witness ==
    /\ Len(synth_calls) = 2
    /\ char = "paimon"
    /\ \E i, j \in 1..2 :
          /\ synth_calls[i].ref = None
          /\ synth_raised[i] = "ValueError"
          /\ synth_calls[j].method = "read_save"
          /\ synth_calls[j].ref # None
          /\ synth_raised[j] = "none"

----------------------------------------------------------------------------
(* Properties of setup_index_tts *)

Ignored == {"check_cuda", "create_sample_voice"}

\* C6 as stated: whichever step returns failure, no later step is invoked
\* and the process ends with a non-zero status.
C6_AsStated ==
    \A i \in 1..Len(invoked) :
        results[i] = "False" =>
            (i = Len(invoked) /\ setup_pc = "exit" /\ exit_status > 0)

\* C6 amended: main calls the steps in the fixed order; when a step other
\* than check_cuda and create_sample_voice returns failure, no later step is
\* invoked and the process ends with status 1. The results of check_cuda
\* and create_sample_voice are ignored: after a failed check_cuda main goes
\* on to install_dependencies, and after create_sample_voice main ends with
\* status 0 whatever it returned.
C6_AbortOnFailure ==
    /\ Len(results) = Len(invoked)
    /\ Len(invoked) <= Len(StepOrder)
    /\ invoked = SubSeq(StepOrder, 1, Len(invoked))
    /\ \A i \in 1..Len(invoked) :
          /\ (results[i] = "False" /\ invoked[i] \notin Ignored) =>
                (i = Len(invoked) /\ setup_pc = "exit" /\ exit_status = 1)
          /\ (results[i] \in Returned /\ invoked[i] = "check_cuda") =>
                (i = Len(invoked) => setup_pc = "install_dependencies")
          /\ (results[i] \in Returned /\ invoked[i] = "create_sample_voice") =>
                (setup_pc = "exit" /\ exit_status = 0)

\* check_cuda failed and was ignored, download_models failed and ended main
C6_Witness ==
    /\ setup_pc = "exit"
    /\ exit_status = 1
    /\ Len(invoked) = 7
    /\ results[2] = "False"
    /\ results[7] = "False"

\* C10: install_index_tts_from_source returns a boolean, never raises, and
\* leaves the working directory as it found it, so every step runs in the
\* original directory.
C10_CwdRestored ==
    /\ cwd = OriginalDir
    /\ \A i \in 1..Len(invoked) :
          invoked[i] = "install_index_tts_from_source" =>
              results[i] \in Returned

====
